---------------------------- MODULE Spec2Model ----------------------------
(***************************************************************************)
(* Single-elimination bracket: seeding with byes (calculateByes,           *)
(* distributeByes), bracket construction (generateBracket) and winner      *)
(* propagation (updateBracketWithWinner) of src/utils/bracketGenerator.ts, *)
(* driven by the handlers of src/App.tsx, and the history-keeping store of *)
(* src/store/tournamentStore.ts.                                           *)
(*                                                                         *)
(* Values.  A Player is a record [id, name, seed]; a bye of createBye is   *)
(* [id, name, isBye].  The TypeScript Player type has no isBye field, so   *)
(* `p?.isBye` on a real player reads a missing field (falsy).  The value   *)
(* `undefined` is Undefined; a missing field and a field holding undefined *)
(* are the same value here (a match made without `winner` has              *)
(* winner = Undefined), which is how equality by value treats them.        *)
(***************************************************************************)
EXTENDS Integers, Sequences, FiniteSets, TLC

VARIABLES
    players,   \* the competitor list handed to handleGenerateBracket
    bracket,   \* App's `bracket` state: Null or [rounds |-> ...]
    slots,     \* playersWithByes of the last generateBracket call
    last,      \* the last handler run: its name, arguments and the bracket it read
    calls,     \* handleWinnerSelect runs: those that read `bracket` and have not
               \* yet had their setBracket applied, and those applied, in order
    store      \* the zustand store of tournamentStore.ts (objects and references)

vars == <<players, bracket, slots, last, calls, store>>

\* Largest competitor count of the seeding specification (SeedSpec).
MaxN == 32
\* Largest competitor count of the propagation specification (Spec).
MaxPlayers == 5
\* Most runs of handleWinnerSelect on one bracket (ConcurrentSpec).
MaxCalls == 2
\* Largest competitor count of ConcurrentSpec.
MaxConcurrentPlayers == 4
\* Most store actions taken from the initial store (StoreSpec).
MaxSteps == 3
\* Most store actions taken once the history is about full (HistorySpec).
MaxFullSteps == 2
\* Most files PlayerInput is reading at one time.
MaxReads == 1

Undefined == [undefined |-> TRUE]
Null == [null |-> TRUE]

-----------------------------------------------------------------------------
(* Inputs *)

\* A real competitor: PlayerInput gives each a fresh id (a UUID, here "p<k>"),
\* a name and its rank of entry as seed.
Player(k) == [id |-> "p" \o ToString(k), name |-> "Player " \o ToString(k),
              seed |-> k]

\* The competitors 1..n in input order, rotated left by o places.
PlayerList(n, o) == [i \in 1..n |-> Player(((i - 1 + o) % n) + 1)]

-----------------------------------------------------------------------------
(* Arithmetic of the code: Math.pow(2, k), Math.ceil(Math.log2(n)),        *)
(* Math.log2(n), Math.ceil(x / 2), Math.floor(x / 2).                      *)

RECURSIVE Pow2(_)
Pow2(k) == IF k <= 0 THEN 1 ELSE 2 * Pow2(k - 1)

RECURSIVE CeilLog2From(_, _)
CeilLog2From(n, k) == IF Pow2(k) >= n THEN k ELSE CeilLog2From(n, k + 1)

\* Math.ceil(Math.log2(n)) for n >= 1.
CeilLog2(n) == CeilLog2From(n, 0)

CeilHalf(x) == (x + 1) \div 2
FloorHalf(x) == x \div 2

\* `p?.isBye`: false for undefined and for a record without the field.
IsBye(p) == /\ p # Undefined
            /\ "isBye" \in DOMAIN p
            /\ p.isBye

\* `p?.id === id` for a string id.
HasId(p, id) == /\ p # Undefined
                /\ p.id = id

\* arr[i] of a JavaScript array, 0-based: undefined out of range.
At(arr, i) == IF i >= 0 /\ i < Len(arr) THEN arr[i + 1] ELSE Undefined

-----------------------------------------------------------------------------
(* calculateByes *)

\* Math.log2(0) is -Infinity and Math.pow(2, -Infinity) is 0.
nextPowerOfTwo(playerCount) ==
    IF playerCount = 0 THEN 0 ELSE Pow2(CeilLog2(playerCount))

\* Variant: the power of two is taken strictly above the count.
calculateByesStrict(playerCount) == nextPowerOfTwo(playerCount + 1) - playerCount

calculateByes(playerCount) == nextPowerOfTwo(playerCount) - playerCount

-----------------------------------------------------------------------------
(* distributeByes *)

createBye(index) ==
    [id |-> "bye-" \o ToString(index + 1), name |-> "BYE", isBye |-> TRUE]

\* Variant: the upper half of an odd count is rounded down.
upperHalfSizeFloor(totalPlayers) == totalPlayers \div 2

upperHalfSize(totalPlayers) ==
    IF totalPlayers % 2 # 0 THEN CeilHalf(totalPlayers + 1)
                            ELSE totalPlayers \div 2

\* Variant: an odd bye count is always rounded up for the upper half.
upperByesRoundedUp(totalPlayers, byesCount) ==
    IF byesCount % 2 = 0 THEN byesCount \div 2 ELSE CeilHalf(byesCount)

upperByes(totalPlayers, byesCount) ==
    IF byesCount % 2 = 0 THEN byesCount \div 2
    ELSE IF totalPlayers % 2 # 0 THEN FloorHalf(byesCount)
                                 ELSE CeilHalf(byesCount)

lowerByes(totalPlayers, byesCount) ==
    IF byesCount % 2 = 0 THEN byesCount \div 2
    ELSE IF totalPlayers % 2 # 0 THEN CeilHalf(byesCount)
                                 ELSE FloorHalf(byesCount)

\* Variant: at a boundary position the bye is pushed instead of the entry.
RECURSIVE ProcessHalfReplacing(_, _, _, _)
ProcessHalfReplacing(half, i, limit, acc) ==
    IF i >= Len(half) THEN acc
    ELSE IF acc.byeIndex < limit /\ (i = 0 \/ i = Len(half) - 1)
    THEN ProcessHalfReplacing(half, i + 1, limit,
            [result |-> Append(acc.result, createBye(acc.byeIndex)),
             byeIndex |-> acc.byeIndex + 1])
    ELSE ProcessHalfReplacing(half, i + 1, limit,
            [result |-> Append(acc.result, half[i + 1]),
             byeIndex |-> acc.byeIndex])

\* Variant: at a boundary position the bye is pushed after the entry.
RECURSIVE ProcessHalfByeAfter(_, _, _, _)
ProcessHalfByeAfter(half, i, limit, acc) ==
    IF i >= Len(half) THEN acc
    ELSE IF acc.byeIndex < limit /\ (i = 0 \/ i = Len(half) - 1)
    THEN ProcessHalfByeAfter(half, i + 1, limit,
            [result |-> Append(Append(acc.result, half[i + 1]),
                               createBye(acc.byeIndex)),
             byeIndex |-> acc.byeIndex + 1])
    ELSE ProcessHalfByeAfter(half, i + 1, limit,
            [result |-> Append(acc.result, half[i + 1]),
             byeIndex |-> acc.byeIndex])

\* The loop over one half, from index i on: acc = [result, byeIndex] are the
\* array and the counter before iteration i.  At the first and at the last
\* index, while byeIndex < limit, a bye is pushed before the entry (the two
\* conjuncts of the code's `if` have no side effect; the counter is read
\* first here so that each iteration works on a computed accumulator).
RECURSIVE ProcessHalf(_, _, _, _)
ProcessHalf(half, i, limit, acc) ==
    IF i >= Len(half) THEN acc
    ELSE IF acc.byeIndex < limit /\ (i = 0 \/ i = Len(half) - 1)
    THEN ProcessHalf(half, i + 1, limit,
            [result |-> Append(Append(acc.result, createBye(acc.byeIndex)),
                               half[i + 1]),
             byeIndex |-> acc.byeIndex + 1])
    ELSE ProcessHalf(half, i + 1, limit,
            [result |-> Append(acc.result, half[i + 1]),
             byeIndex |-> acc.byeIndex])

\* while (byeIndex < limit) result.push(byePlayers[byeIndex++])
RECURSIVE AddRemaining(_, _)
AddRemaining(limit, acc) ==
    IF acc.byeIndex < limit
    THEN AddRemaining(limit, [result |-> Append(acc.result, createBye(acc.byeIndex)),
                              byeIndex |-> acc.byeIndex + 1])
    ELSE acc

\* The upper half and its byes: the result and byeIndex after line 67.
UpperPart(ps, byesCount) ==
    LET upperHalf == SubSeq(ps, 1, upperHalfSize(Len(ps)))
        ub == upperByes(Len(ps), byesCount)
    IN  AddRemaining(ub, ProcessHalf(upperHalf, 0, ub,
                                     [result |-> <<>>, byeIndex |-> 0]))

distributeByes(ps, byesCount) ==
    LET lowerHalf == SubSeq(ps, upperHalfSize(Len(ps)) + 1, Len(ps))
    IN  AddRemaining(byesCount,
                     ProcessHalf(lowerHalf, 0, byesCount,
                                 UpperPart(ps, byesCount))).result


-----------------------------------------------------------------------------
(* generateBracket *)

\* Variant: match numbers start from 0.
matchIdFromZero(round, number) ==
    "r" \o ToString(round) \o "-m" \o ToString(number - 1)

matchId(round, number) == "r" \o ToString(round) \o "-m" \o ToString(number)

\* Variant: only a bye in the first slot advances the opponent.
firstRoundWinnerFirstSlotOnly(player1, player2) ==
    IF IsBye(player1) THEN player2 ELSE Undefined

\* The winner of a first-round pair: the opponent of a bye, else undefined.
firstRoundWinner(player1, player2) ==
    IF IsBye(player1) THEN player2
    ELSE IF IsBye(player2) THEN player1
    ELSE Undefined

\* for (i = 0; i < totalSlots; i += 2): one match per pair of slots.
firstRound(playersWithByes) ==
    [m \in 1..CeilHalf(Len(playersWithByes)) |->
        LET player1 == At(playersWithByes, 2 * (m - 1))
            player2 == At(playersWithByes, 2 * (m - 1) + 1)
        IN  [id |-> matchId(1, m),
             round |-> 1,
             player1 |-> player1,
             player2 |-> player2,
             winner |-> firstRoundWinner(player1, player2)]]

\* Math.log2(totalSlots): totalSlots is the length distributeByes returns, a
\* power of two, where Math.log2 is the exponent; -1 stands for -Infinity
\* (totalSlots = 0), which the code only compares with round numbers >= 2.
numRounds(totalSlots) == IF totalSlots = 0 THEN -1 ELSE CeilLog2(totalSlots)

\* Variant: the feeding matches are taken at i and i + 1 instead of 2i and 2i + 1.
laterRoundUnscaled(prevRoundMatches, round, rounds) ==
    [m \in 1..Pow2(rounds - round) |->
        [id |-> matchId(round, m),
         round |-> round,
         player1 |-> IF At(prevRoundMatches, m - 1) = Undefined THEN Undefined
                     ELSE At(prevRoundMatches, m - 1).winner,
         player2 |-> IF At(prevRoundMatches, m) = Undefined THEN Undefined
                     ELSE At(prevRoundMatches, m).winner,
         winner |-> Undefined]]

\* One round >= 2, made from the round before it.
laterRound(prevRoundMatches, round, rounds) ==
    [m \in 1..Pow2(rounds - round) |->
        [id |-> matchId(round, m),
         round |-> round,
         player1 |-> IF At(prevRoundMatches, 2 * (m - 1)) = Undefined THEN Undefined
                     ELSE At(prevRoundMatches, 2 * (m - 1)).winner,
         player2 |-> IF At(prevRoundMatches, 2 * (m - 1) + 1) = Undefined THEN Undefined
                     ELSE At(prevRoundMatches, 2 * (m - 1) + 1).winner,
         winner |-> Undefined]]

\* for (round = 2; round <= numRounds; round++) rounds.push(...)
RECURSIVE subsequentRounds(_, _, _)
subsequentRounds(rounds, round, n) ==
    IF round > n THEN rounds
    ELSE subsequentRounds(Append(rounds, laterRound(rounds[round - 1], round, n)),
                          round + 1, n)

buildRounds(playersWithByes) ==
    subsequentRounds(<<firstRound(playersWithByes)>>, 2,
                     numRounds(Len(playersWithByes)))

playersWithByesOf(ps) == distributeByes(ps, calculateByes(Len(ps)))

generateBracket(ps) == [rounds |-> buildRounds(playersWithByesOf(ps))]

-----------------------------------------------------------------------------
(* updateBracketWithWinner *)

\* newRounds.findIndex(round => round.some(match => match.id === matchId)),
\* 0-based, -1 when no round holds the id.
RECURSIVE findRoundFrom(_, _, _)
findRoundFrom(rounds, id, r) ==
    IF r > Len(rounds) THEN -1
    ELSE IF \E m \in 1..Len(rounds[r]) : rounds[r][m].id = id THEN r - 1
    ELSE findRoundFrom(rounds, id, r + 1)

findRoundIndex(rounds, id) == findRoundFrom(rounds, id, 1)

\* round.findIndex(match => match.id === matchId), 0-based.
RECURSIVE findMatchFrom(_, _, _)
findMatchFrom(round, id, m) ==
    IF m > Len(round) THEN -1
    ELSE IF round[m].id = id THEN m - 1
    ELSE findMatchFrom(round, id, m + 1)

findMatchIndex(round, id) == findMatchFrom(round, id, 1)

\* Variant: selecting the current winner again withdraws the result.
selectWinnerToggle(match, winnerId) ==
    IF HasId(match.winner, winnerId) THEN Undefined
    ELSE IF HasId(match.player1, winnerId) THEN match.player1 ELSE match.player2

\* const winner = match.player1?.id === winnerId ? match.player1 : match.player2
selectWinner(match, winnerId) ==
    IF HasId(match.player1, winnerId) THEN match.player1 ELSE match.player2

nextRoundMatchIndex(matchIndex) == matchIndex \div 2

\* Variant: the slot parity is inverted.
advanceIntoOtherSlot(nextRoundMatch, matchIndex, winner) ==
    LET isPlayer1 == (matchIndex % 2 # 0)
    IN  [nextRoundMatch EXCEPT
            !.player1 = IF isPlayer1 THEN winner ELSE nextRoundMatch.player1,
            !.player2 = IF ~isPlayer1 THEN winner ELSE nextRoundMatch.player2,
            !.winner = Undefined]

\* Variant: the parent's own winner is not reset.
advanceIntoKeepingWinner(nextRoundMatch, matchIndex, winner) ==
    LET isPlayer1 == (matchIndex % 2 = 0)
    IN  [nextRoundMatch EXCEPT
            !.player1 = IF isPlayer1 THEN winner ELSE nextRoundMatch.player1,
            !.player2 = IF ~isPlayer1 THEN winner ELSE nextRoundMatch.player2]

\* Variant: writing the winner empties the parent's other slot.
advanceIntoClearingSibling(nextRoundMatch, matchIndex, winner) ==
    LET isPlayer1 == (matchIndex % 2 = 0)
    IN  [nextRoundMatch EXCEPT
            !.player1 = IF isPlayer1 THEN winner ELSE Undefined,
            !.player2 = IF ~isPlayer1 THEN winner ELSE Undefined,
            !.winner = Undefined]

\* The parent match with the winner written into the slot the child feeds.
advanceInto(nextRoundMatch, matchIndex, winner) ==
    LET isPlayer1 == (matchIndex % 2 = 0)
    IN  [nextRoundMatch EXCEPT
            !.player1 = IF isPlayer1 THEN winner ELSE nextRoundMatch.player1,
            !.player2 = IF ~isPlayer1 THEN winner ELSE nextRoundMatch.player2,
            !.winner = Undefined]

\* Variant: the invalidation cascades, clearing the grandparent's winner too.
applyWinnerCascading(rounds, roundIndex, matchIndex, winnerId) ==
    LET match == rounds[roundIndex + 1][matchIndex + 1]
        winner == IF HasId(match.player1, winnerId) THEN match.player1
                                                   ELSE match.player2
        set == [rounds EXCEPT ![roundIndex + 1][matchIndex + 1].winner = winner]
        parent == IF roundIndex < Len(rounds) - 1
                  THEN [set EXCEPT ![roundIndex + 2][(matchIndex \div 2) + 1] =
                           [@ EXCEPT !.player1 = IF matchIndex % 2 = 0 THEN winner ELSE @,
                                     !.player2 = IF matchIndex % 2 # 0 THEN winner ELSE @,
                                     !.winner = Undefined]]
                  ELSE set
    IN  IF roundIndex < Len(rounds) - 2
        THEN [parent EXCEPT ![roundIndex + 3][(matchIndex \div 4) + 1].winner = Undefined]
        ELSE parent

\* Variant: the parent is rebuilt from the decided match (`...match`) instead
\* of from the next round's match.
applyWinnerSpreadingChild(rounds, roundIndex, matchIndex, winnerId) ==
    LET match == rounds[roundIndex + 1][matchIndex + 1]
        winner == IF HasId(match.player1, winnerId) THEN match.player1
                                                   ELSE match.player2
        set == [rounds EXCEPT ![roundIndex + 1][matchIndex + 1].winner = winner]
    IN  IF roundIndex < Len(rounds) - 1
        THEN [set EXCEPT ![roundIndex + 2][(matchIndex \div 2) + 1] =
                 [match EXCEPT
                     !.player1 = IF matchIndex % 2 = 0 THEN winner ELSE @,
                     !.player2 = IF matchIndex % 2 # 0 THEN winner ELSE @,
                     !.winner = Undefined]]
        ELSE set

\* Lines 159-179: the match is found and holds no bye.
applyWinner(rounds, roundIndex, matchIndex, winnerId) ==
    LET match == rounds[roundIndex + 1][matchIndex + 1]
        winner == selectWinner(match, winnerId)
        set == [rounds EXCEPT ![roundIndex + 1][matchIndex + 1].winner = winner]
    IN  IF roundIndex < Len(rounds) - 1
        THEN [set EXCEPT ![roundIndex + 2][nextRoundMatchIndex(matchIndex) + 1] =
                 advanceInto(@, matchIndex, winner)]
        ELSE set

\* Variant: an unknown id falls through to the final match, and a match with
\* a bye is updated like any other.
updateBracketUnguarded(b, id, winnerId) ==
    LET found == findRoundIndex(b.rounds, id)
        roundIndex == IF found = -1 THEN Len(b.rounds) - 1 ELSE found
        matchIndex == IF found = -1 THEN 0
                      ELSE findMatchIndex(b.rounds[roundIndex + 1], id)
    IN  [rounds |-> applyWinner(b.rounds, roundIndex, matchIndex, winnerId)]

updateBracketWithWinner(b, id, winnerId) ==
    LET roundIndex == findRoundIndex(b.rounds, id)
    IN  IF roundIndex = -1 THEN b
        ELSE LET matchIndex == findMatchIndex(b.rounds[roundIndex + 1], id)
                 match == b.rounds[roundIndex + 1][matchIndex + 1]
             IN  IF IsBye(match.player1) \/ IsBye(match.player2) THEN b
                 ELSE [rounds |-> applyWinner(b.rounds, roundIndex, matchIndex, winnerId)]

-----------------------------------------------------------------------------
(* updateBracketWithWinner on the heap.  A bracket's `rounds` is an array of *)
(* arrays of match objects; the heap is a sequence of objects, an address is *)
(* an index into it, and a bracket is known by the address of its `rounds`   *)
(* array.  The call allocates copies and writes into them; what a holder of  *)
(* the input bracket sees afterwards is the input's address read in the      *)
(* heap the call leaves behind.                                              *)

ArrayObject(items) == [kind |-> "array", items |-> items]
MatchObject(match) == [kind |-> "match", value |-> match]

\* The number of matches in the rounds before round r.
RECURSIVE matchesBefore(_, _)
matchesBefore(rounds, r) ==
    IF r <= 1 THEN 0 ELSE matchesBefore(rounds, r - 1) + Len(rounds[r - 1])

RECURSIVE matchObjects(_, _)
matchObjects(rounds, r) ==
    IF r > Len(rounds) THEN <<>>
    ELSE [m \in 1..Len(rounds[r]) |-> MatchObject(rounds[r][m])]
         \o matchObjects(rounds, r + 1)

\* A heap holding the bracket b alone: its match objects, then its round
\* arrays, then its `rounds` array, whose address is the last one.
heapOf(b) ==
    LET total == matchesBefore(b.rounds, Len(b.rounds) + 1)
    IN  matchObjects(b.rounds, 1)
        \o [r \in 1..Len(b.rounds) |->
               ArrayObject([m \in 1..Len(b.rounds[r]) |->
                               matchesBefore(b.rounds, r) + m])]
        \o <<ArrayObject([r \in 1..Len(b.rounds) |-> total + r])>>

\* The bracket value read through the address of a `rounds` array.
readBracket(heap, roundsRef) ==
    [rounds |->
        [r \in 1..Len(heap[roundsRef].items) |->
            LET round == heap[heap[roundsRef].items[r]].items
            IN  [m \in 1..Len(round) |-> heap[round[m]].value]]]

\* newRounds[roundIndex][matchIndex], read through the heap.
matchAt(heap, roundsRef, roundIndex, matchIndex) ==
    heap[heap[heap[roundsRef].items[roundIndex + 1]].items[matchIndex + 1]].value

\* Variant: `[...bracket.rounds]`, a copy of the outer array that shares the
\* round arrays with the input.
copyRoundsShallow(heap, roundsRef) ==
    [heap |-> Append(heap, ArrayObject(heap[roundsRef].items)),
     ref |-> Len(heap) + 1]

\* bracket.rounds.map(round => [...round]): a new array per round, holding
\* the same match objects, and a new outer array of them.
copyRounds(heap, roundsRef) ==
    LET old == heap[roundsRef].items
        copies == [r \in 1..Len(old) |-> ArrayObject(heap[old[r]].items)]
    IN  [heap |-> heap \o copies
                    \o <<ArrayObject([r \in 1..Len(old) |-> Len(heap) + r])>>,
         ref |-> Len(heap) + Len(old) + 1]

\* newRounds[roundIndex][matchIndex] = <a new match object>
storeMatch(heap, roundsRef, roundIndex, matchIndex, match) ==
    LET roundRef == heap[roundsRef].items[roundIndex + 1]
    IN  [Append(heap, MatchObject(match)) EXCEPT
            ![roundRef].items[matchIndex + 1] = Len(heap) + 1]

\* The call on the heap: the heap it leaves and the address it returns.
updateOnHeap(heap, roundsRef, id, winnerId) ==
    LET copied == copyRounds(heap, roundsRef)
        newRounds == readBracket(copied.heap, copied.ref).rounds
        roundIndex == findRoundIndex(newRounds, id)
    IN  IF roundIndex = -1 THEN [heap |-> copied.heap, ref |-> roundsRef]
        ELSE
        LET matchIndex == findMatchIndex(newRounds[roundIndex + 1], id)
            match == newRounds[roundIndex + 1][matchIndex + 1]
            winner == selectWinner(match, winnerId)
            set == storeMatch(copied.heap, copied.ref, roundIndex, matchIndex,
                              [match EXCEPT !.winner = winner])
            nextRoundMatch ==
                matchAt(set, copied.ref, roundIndex + 1, nextRoundMatchIndex(matchIndex))
        IN  IF IsBye(match.player1) \/ IsBye(match.player2)
            THEN [heap |-> copied.heap, ref |-> roundsRef]
            ELSE IF roundIndex < Len(newRounds) - 1
            THEN [heap |-> storeMatch(set, copied.ref, roundIndex + 1,
                                      nextRoundMatchIndex(matchIndex),
                                      advanceInto(nextRoundMatch, matchIndex, winner)),
                  ref |-> copied.ref]
            ELSE [heap |-> set, ref |-> copied.ref]

\* The bracket b as its holders read it after updateBracketWithWinner(b, ...).
inputAfterCall(b, id, winnerId) ==
    LET heap == heapOf(b)
    IN  readBracket(updateOnHeap(heap, Len(heap), id, winnerId).heap, Len(heap))

\* The bracket the call returns, read from the heap it leaves.
resultOfCall(b, id, winnerId) ==
    LET heap == heapOf(b)
        call == updateOnHeap(heap, Len(heap), id, winnerId)
    IN  readBracket(call.heap, call.ref)

-----------------------------------------------------------------------------
(* The store of tournamentStore.ts.                                         *)
(*                                                                          *)
(* Objects and references.  zustand's set(fn) replaces the state object by  *)
(* Object.assign({}, state, fn(state)) unless fn returns `state` itself, so *)
(* a state object is never written after it is published: store.states     *)
(* lists them in order of creation and store.current is the reference of    *)
(* the store's state.  A history entry holds a reference to a state object  *)
(* (its timestamp is read nowhere and is left out).  The `rounds` array of  *)
(* a bracket, with its round arrays and match objects, is one entry of      *)
(* store.arrays: no store action copies a round array or a match, so they   *)
(* are shared or distinct together.  A bracket object is never written      *)
(* after it is published and is held by value: its `rounds` reference and   *)
(* its completionPercentage and its lastSaved.                              *)
(* store.issued counts the ids crypto.randomUUID() has handed out,          *)
(* store.reading lists the files PlayerInput has been given and whose       *)
(* FileReader has not finished, and store.trail is the record of the        *)
(* actions taken: for each, its name and the reference and the arrays of    *)
(* the store it was taken on.                                               *)

MAX_HISTORY == 50

Min(a, b) == IF a <= b THEN a ELSE b
Max(a, b) == IF a >= b THEN a ELSE b

\* The value of 0 / 0.
NaN == [nan |-> TRUE]

createInitialState ==
    [players |-> <<>>, pools |-> <<>>, bracket |-> Null, history |-> <<>>,
     historyIndex |-> -1, viewMode |-> "classic", status |-> "not_started"]

NoStore == [states |-> <<createInitialState>>, current |-> 1,
            arrays |-> <<>>, issued |-> 0, reading |-> <<>>, trail |-> <<>>]

\* get(): the store's state object.
StateOf(st) == st.states[st.current]

\* persist's partialize: what is written to "tournament-storage" (as JSON,
\* so the bracket goes by value).
partialize(st) ==
    [players |-> StateOf(st).players,
     pools |-> StateOf(st).pools,
     bracket |-> IF StateOf(st).bracket = Null THEN Null
                 ELSE [StateOf(st).bracket EXCEPT !.rounds = st.arrays[@]],
     status |-> StateOf(st).status,
     viewMode |-> StateOf(st).viewMode]

\* The store created where "tournament-storage" holds `saved`: persist
\* merges the five stored fields into the initial state, the bracket parsed
\* into new arrays; history and historyIndex are not stored and start at []
\* and -1.  `issued` ids exist already.
rehydrated(saved, issued) ==
    [NoStore EXCEPT
        !.states = <<[createInitialState EXCEPT
                         !.players = saved.players,
                         !.pools = saved.pools,
                         !.bracket = IF saved.bracket = Null THEN Null
                                     ELSE [saved.bracket EXCEPT !.rounds = 1],
                         !.status = saved.status,
                         !.viewMode = saved.viewMode]>>,
        !.arrays = IF saved.bracket = Null THEN <<>> ELSE <<saved.bracket.rounds>>,
        !.issued = issued]

\* set(fn) when fn returns a new object.
publish(st, newState) ==
    [st EXCEPT !.states = Append(@, newState), !.current = Len(st.states) + 1]

\* arr.slice(0, end) for end >= 0.
sliceUpTo(arr, end) == SubSeq(arr, 1, Min(end, Len(arr)))

\* arr.slice(-n): the last n elements.
sliceLast(arr, n) == SubSeq(arr, Max(1, Len(arr) - n + 1), Len(arr))

\* Variant: the history is not cut to MAX_HISTORY entries.
recordedHistoryUncut(st) ==
    Append(sliceUpTo(StateOf(st).history, StateOf(st).historyIndex + 1),
           [state |-> st.current])

\* [...state.history.slice(0, state.historyIndex + 1),
\*  { timestamp, state: state }].slice(-MAX_HISTORY)
recordedHistory(st) ==
    sliceLast(Append(sliceUpTo(StateOf(st).history, StateOf(st).historyIndex + 1),
                     [state |-> st.current]),
              MAX_HISTORY)

\* Math.min(state.historyIndex + 1, MAX_HISTORY - 1)
recordedIndex(st) == Min(StateOf(st).historyIndex + 1, MAX_HISTORY - 1)

addPlayer(st, player) ==
    publish(st, [StateOf(st) EXCEPT !.players = Append(@, player),
                                    !.history = recordedHistory(st),
                                    !.historyIndex = recordedIndex(st)])

removePlayer(st, id) ==
    LET keep(player) == player.id # id
    IN  publish(st, [StateOf(st) EXCEPT !.players = SelectSeq(@, keep),
                                        !.history = recordedHistory(st),
                                        !.historyIndex = recordedIndex(st)])

importPlayers(st, newPlayers) ==
    publish(st, [StateOf(st) EXCEPT !.players = @ \o newPlayers,
                                    !.history = recordedHistory(st),
                                    !.historyIndex = recordedIndex(st)])

clearPlayers(st) ==
    publish(st, [StateOf(st) EXCEPT !.players = <<>>,
                                    !.pools = <<>>,
                                    !.bracket = Null,
                                    !.status = "not_started"])

\* The pool count of lines 122-127.
poolCountFor(playerCount) ==
    IF playerCount <= 8 THEN 1
    ELSE IF playerCount <= 16 THEN 2
    ELSE IF playerCount <= 32 THEN 4
    ELSE 8

\* arr.slice(from, to) for 0 <= from <= to.
sliceBetween(arr, from, to) == SubSeq(arr, from + 1, Min(to, Len(arr)))

distributePools(st) ==
    LET playerCount == Len(StateOf(st).players)
        poolCount == poolCountFor(playerCount)
        playersPerPool == (playerCount + poolCount - 1) \div poolCount
        pools == [i \in 1..poolCount |->
                     [id |-> "pool-" \o ToString(i),
                      name |-> "Pool " \o ToString(i),
                      players |-> sliceBetween(StateOf(st).players,
                                               (i - 1) * playersPerPool,
                                               i * playersPerPool),
                      matches |-> <<>>]]
    IN  publish(st, [StateOf(st) EXCEPT !.pools = pools,
                                        !.status = "in_progress"])

\* setBracket(b) for a bracket b the caller has just built: its rounds are a
\* new entry of the arrays.
setBracket(st, b) ==
    publish([st EXCEPT !.arrays = Append(@, b.rounds)],
            [StateOf(st) EXCEPT
                !.bracket = [rounds |-> Len(st.arrays) + 1,
                             completionPercentage |-> Undefined,
                             lastSaved |-> Undefined],
                !.status = "in_progress"])

\* completed / total * 100 is computed in binary64.  When 100 * completed /
\* total is exactly h + 1/2, i.e. 200 * completed / total is an odd integer
\* 2h + 1, the quotient is not a binary fraction and the product is either
\* h + 1/2 exactly or the double just below it; it is just below for these
\* four values of 2h + 1 (14.5, 28.5, 56.5 and 57.5 percent) and exact for
\* every other odd integer up to 199.
HalvesComputedBelow == {29, 57, 113, 115}

\* Math.round((completedMatches / totalMatches) * 100): Math.round takes
\* h + 1/2 to h + 1.  Away from the halves the exact quotient is at least
\* 1 / (2 * total) from one, far more than the error of the two operations,
\* and the rounding is that of the exact value.  `match.winner` is truthy
\* when a winner object is there; 0 / 0 is NaN.
calculateCompletionPercentage(rounds) ==
    LET matches == UNION {{<<r, m>> : m \in 1..Len(rounds[r])} : r \in 1..Len(rounds)}
        completedMatches ==
            Cardinality({pos \in matches : rounds[pos[1]][pos[2]].winner # Undefined})
        totalMatches == Cardinality(matches)
        twice == (200 * completedMatches) \div totalMatches
    IN  IF totalMatches = 0 THEN NaN
        ELSE IF (200 * completedMatches) % totalMatches = 0 /\ twice % 2 = 1
        THEN IF twice \in HalvesComputedBelow THEN (twice - 1) \div 2
                                             ELSE (twice + 1) \div 2
        ELSE (200 * completedMatches + totalMatches) \div (2 * totalMatches)

\* updateMatch: `{ ...state.bracket }` copies the bracket object only, so
\* newBracket.rounds is the array of state.bracket and the assignment to
\* `winner` writes the match object that every holder of that array sees.
updateMatch(st, id, winner) ==
    IF StateOf(st).bracket = Null THEN st
    ELSE LET ref == StateOf(st).bracket.rounds
             roundIndex == findRoundIndex(st.arrays[ref], id)
         IN  IF roundIndex = -1 THEN st
             ELSE LET matchIndex == findMatchIndex(st.arrays[ref][roundIndex + 1], id)
                      written == [st.arrays[ref] EXCEPT
                                     ![roundIndex + 1][matchIndex + 1].winner = winner]
                  IN  publish([st EXCEPT !.arrays[ref] = written],
                              [StateOf(st) EXCEPT
                                  !.bracket = [@ EXCEPT !.completionPercentage =
                                                   calculateCompletionPercentage(written)],
                                  !.history = recordedHistory(st),
                                  !.historyIndex = recordedIndex(st)])

\* The match with the field `annotations` set, which it may not have had.
annotated(match, annotation) ==
    [field \in DOMAIN match \cup {"annotations"} |->
        IF field = "annotations" THEN annotation ELSE match[field]]

\* setAnnotation: like updateMatch it writes the match object in place, in
\* the array every holder sees; the state object is replaced, with a copy of
\* the bracket object, and nothing is recorded in the history.
setAnnotation(st, id, annotation) ==
    IF StateOf(st).bracket = Null THEN st
    ELSE LET ref == StateOf(st).bracket.rounds
             roundIndex == findRoundIndex(st.arrays[ref], id)
         IN  IF roundIndex = -1 THEN st
             ELSE LET matchIndex == findMatchIndex(st.arrays[ref][roundIndex + 1], id)
                      written == [st.arrays[ref] EXCEPT
                                     ![roundIndex + 1][matchIndex + 1] =
                                         annotated(@, annotation)]
                  IN  publish([st EXCEPT !.arrays[ref] = written], StateOf(st))

setViewMode(st, mode) == publish(st, [StateOf(st) EXCEPT !.viewMode = mode])

setStatus(st, status) == publish(st, [StateOf(st) EXCEPT !.status = status])

\* saveState, run by the 60 s timer: lastSaved = new Date() in a copy of the
\* bracket object.
saveState(st, date) ==
    IF StateOf(st).bracket = Null THEN st
    ELSE publish(st, [StateOf(st) EXCEPT !.bracket.lastSaved = date])

\* undo: { ...previousState, historyIndex: state.historyIndex - 1 }, where
\* previousState brings its own players, pools, bracket, history, viewMode
\* and status.
\* Reading `.state` of a missing entry throws and the store keeps its state.
undo(st) ==
    IF StateOf(st).historyIndex <= 0 THEN st
    ELSE LET entry == At(StateOf(st).history, StateOf(st).historyIndex - 1)
         IN  IF entry = Undefined THEN st
             ELSE publish(st, [st.states[entry.state] EXCEPT
                                  !.historyIndex = StateOf(st).historyIndex - 1])

redo(st) ==
    IF StateOf(st).historyIndex >= Len(StateOf(st).history) - 1 THEN st
    ELSE LET entry == At(StateOf(st).history, StateOf(st).historyIndex + 1)
         IN  IF entry = Undefined THEN st
             ELSE publish(st, [st.states[entry.state] EXCEPT
                                  !.historyIndex = StateOf(st).historyIndex + 1])

-----------------------------------------------------------------------------
(* The handlers of App.tsx *)

\* Every match of a bracket, as <<round index, match index>> (both 1-based).
Positions(b) ==
    UNION {{<<r, m>> : m \in 1..Len(b.rounds[r])} : r \in 1..Len(b.rounds)}

\* Match ids a caller may pass: those of the bracket and one it does not hold.
MatchIdInputs(b) ==
    {b.rounds[pos[1]][pos[2]].id : pos \in Positions(b)} \cup {"r0-m1"}

\* Winner ids a caller may pass: every competitor's, a bye's, and a stranger's.
WinnerIdInputs ==
    {players[i].id : i \in 1..Len(players)} \cup {"bye-1", "nobody"}

NoCall == [op |-> "none", before |-> Null, matchId |-> "", winnerId |-> ""]

\* No run of handleWinnerSelect has started.
NoCalls == [inflight |-> <<>>, committed |-> <<>>]

HandleGenerateBracket ==
    /\ bracket = Null
    /\ bracket' = generateBracket(players)
    /\ slots' = playersWithByesOf(players)
    /\ last' = [NoCall EXCEPT !.op = "generate"]
    /\ UNCHANGED <<players, calls, store>>

HandleWinnerSelect ==
    /\ bracket # Null
    /\ \E id \in MatchIdInputs(bracket), winnerId \in WinnerIdInputs :
          /\ bracket' = updateBracketWithWinner(bracket, id, winnerId)
          /\ last' = [op |-> "select", before |-> bracket,
                      matchId |-> id, winnerId |-> winnerId]
    /\ UNCHANGED <<players, slots, calls, store>>

\* The "New Tournament" button: setBracket(null).
NewTournament ==
    /\ bracket # Null
    /\ bracket' = Null
    /\ last' = [NoCall EXCEPT !.op = "reset", !.before = bracket]
    /\ UNCHANGED <<players, slots, calls, store>>

InitWith(minCount, maxCount, rotations) ==
    /\ \E n \in minCount..maxCount, o \in 0..maxCount :
          /\ o = 0 \/ (rotations /\ o < n)
          /\ players = PlayerList(n, o)
    /\ bracket = Null
    /\ slots = <<>>
    /\ last = NoCall
    /\ calls = NoCalls
    /\ store = NoStore

\* Propagation: brackets of 2..MaxPlayers competitors (PlayerInput offers
\* "generate" from two competitors on) and every sequence of winner selections.
Init == InitWith(2, MaxPlayers, FALSE)

Next ==
    \/ HandleGenerateBracket
    \/ HandleWinnerSelect
    \/ NewTournament

Spec == Init /\ [][Next]_vars

\* Seeding and construction alone, for every competitor count 0..MaxN and
\* every rotation of the input order.
InitSeed == InitWith(0, MaxN, TRUE)

NextSeed ==
    \/ HandleGenerateBracket
    \/ NewTournament

SeedSpec == InitSeed /\ [][NextSeed]_vars

-----------------------------------------------------------------------------
(* Two runs of handleWinnerSelect on one rendering.  The handler is a       *)
(* closure over the `bracket` of the rendering that made it: every run      *)
(* started before the next rendering reads that same bracket, and the       *)
(* setBracket calls take effect one after the other.                        *)

WithoutAt(seq, h) == SubSeq(seq, 1, h - 1) \o SubSeq(seq, h + 1, Len(seq))

\* Variant: the update is computed from the bracket held when it is applied
\* (setBracket(prev => updateBracketWithWinner(prev, ...))).
committedBracketFromCurrent(current, call) ==
    updateBracketWithWinner(current, call.matchId, call.winnerId)

\* setBracket(updatedBracket): updatedBracket was computed from the bracket
\* the run read; the bracket held at that moment is not consulted.
committedBracket(current, call) ==
    updateBracketWithWinner(call.snapshot, call.matchId, call.winnerId)

\* Lines 18-24: a run starts and reads `bracket`.
ReadSnapshot ==
    /\ bracket # Null
    /\ Len(calls.inflight) + Len(calls.committed) < MaxCalls
    /\ \E id \in MatchIdInputs(bracket), winnerId \in WinnerIdInputs :
          calls' = [calls EXCEPT !.inflight =
                       Append(@, [snapshot |-> bracket, matchId |-> id,
                                  winnerId |-> winnerId])]
    /\ UNCHANGED <<players, bracket, slots, last, store>>

\* Line 25: the setBracket of one of the runs takes effect.
CommitResult ==
    /\ \E h \in 1..Len(calls.inflight) :
          LET call == calls.inflight[h]
          IN  /\ bracket' = committedBracket(bracket, call)
              /\ last' = [op |-> "select", before |-> call.snapshot,
                          matchId |-> call.matchId, winnerId |-> call.winnerId]
              /\ calls' = [inflight |-> WithoutAt(calls.inflight, h),
                           committed |-> Append(calls.committed, call)]
    /\ UNCHANGED <<players, slots, store>>

NextConcurrent ==
    \/ HandleGenerateBracket
    \/ ReadSnapshot
    \/ CommitResult

InitConcurrent == InitWith(2, MaxConcurrentPlayers, FALSE)

ConcurrentSpec == InitConcurrent /\ [][NextConcurrent]_vars

-----------------------------------------------------------------------------
(* The store's actions *)

\* The player PlayerInput makes for the index-th name of one entry, from
\* the players.length of the rendering its handler belongs to: a fresh id
\* from crypto.randomUUID() (the next unused number here), the name, and
\* seed = players.length + index + 1.
madePlayer(st, length, index) ==
    [id |-> "p" \o ToString(st.issued + index + 1),
     name |-> "Player " \o ToString(st.issued + index + 1),
     seed |-> length + index + 1]

\* handleAddPlayer and handleBulkImport run on the current rendering.
FreshPlayer(st, index) == madePlayer(st, Len(StateOf(st).players), index)

\* getPoolInfo().pools
poolsFor(count) ==
    IF count <= 8 THEN 1
    ELSE IF count <= 16 THEN 2
    ELSE IF count <= 32 THEN 4
    ELSE 8

isAtCapacity(count) == count >= poolsFor(count) * 8

\* handleBulkImport, on the current rendering: validatePlayerName refuses
\* every name when the list is at capacity (the names typed are new ones
\* here); importPlayers is called with the players made for the accepted
\* names, also when there is none.
handleBulkImport(st, names) ==
    LET accepted == IF isAtCapacity(Len(StateOf(st).players)) THEN 0 ELSE names
    IN  [importPlayers(st, [k \in 1..accepted |-> FreshPlayer(st, k - 1)])
            EXCEPT !.issued = @ + accepted]

\* processFileContent, run by reader.onload: it belongs to the rendering
\* that took the drop, and file.length is that rendering's players.length.
\* validatePlayerName refuses every name when that rendering was at
\* capacity (the names of a file are new ones here); importPlayers is called
\* with the players made for the accepted names.
processFileContent(st, file) ==
    LET accepted == IF isAtCapacity(file.length) THEN 0 ELSE file.names
    IN  [importPlayers(st, [k \in 1..accepted |->
                               madePlayer(st, file.length, k - 1)])
            EXCEPT !.issued = @ + accepted]

\* crypto.randomUUID() was called n times.
Issued(st, n) == [st EXCEPT !.issued = @ + n]

\* Brackets a caller may install.
BracketInputs == {generateBracket(PlayerList(n, 0)) : n \in 2..3}

StatusInputs == {"not_started", "in_progress", "completed", "archived"}

ViewModeInputs == {"classic", "react-tournament"}

AnnotationInputs == {"note"}

\* How many names the bulk text area may hold.
BulkInputs == 0..2

\* How many names a dropped file may hold.
FileInputs == 1..2

\* Stores an earlier session may have left in "tournament-storage": one
\* competitor; fourteen competitors, a list two short of its capacity; two
\* competitors, their bracket decided, the other view.
EarlierSessions ==
    {addPlayer(NoStore, Player(1)),
     importPlayers(NoStore, PlayerList(14, 0)),
     setViewMode(
         updateMatch(
             setBracket(importPlayers(NoStore, PlayerList(2, 0)),
                        generateBracket(PlayerList(2, 0))),
             "r1-m1", Player(1)),
         "react-tournament")}

\* Values of new Date().
DateInputs == {"date-1", "date-2"}

\* Ids a caller may pass to removePlayer: the first competitor's, a stranger's.
RemoveIdInputs(st) ==
    {StateOf(st).players[i].id : i \in 1..Min(1, Len(StateOf(st).players))}
        \cup {"nobody"}

\* Match ids a caller may pass to updateMatch.
StoreMatchIdInputs(st) ==
    IF StateOf(st).bracket = Null THEN {"r1-m1"}
    ELSE MatchIdInputs([rounds |-> st.arrays[StateOf(st).bracket.rounds]])

\* The action `op` takes the store from `store` to `next`.
Taken(op, next) ==
    /\ store' = [next EXCEPT !.trail = Append(@, [op |-> op,
                                                  current |-> store.current,
                                                  arrays |-> store.arrays])]
    /\ UNCHANGED <<players, bracket, slots, last, calls>>

AddPlayer ==
    Taken("addPlayer", Issued(addPlayer(store, FreshPlayer(store, 0)), 1))

RemovePlayer ==
    \E id \in RemoveIdInputs(store) : Taken("removePlayer", removePlayer(store, id))

ImportPlayers ==
    \E names \in BulkInputs :
        Taken("importPlayers", handleBulkImport(store, names))

\* onDrop: the FileReader starts and the handler returns.
DropFile ==
    /\ Len(store.reading) < MaxReads
    /\ \E names \in FileInputs :
          Taken("onDrop",
                [store EXCEPT !.reading =
                    Append(@, [length |-> Len(StateOf(store).players),
                               names |-> names])])

\* reader.onload of one of the files being read.
FileLoaded ==
    \E h \in 1..Len(store.reading) :
        Taken("importPlayers",
              processFileContent([store EXCEPT !.reading = WithoutAt(@, h)],
                                 store.reading[h]))

\* reader.onerror, or reader.onload with a file processFileContent cannot
\* parse (its catch branch): the store is not touched.
FileFailed ==
    \E h \in 1..Len(store.reading) :
        Taken("onerror", [store EXCEPT !.reading = WithoutAt(@, h)])

ClearPlayers == Taken("clearPlayers", clearPlayers(store))

SetBracket == \E b \in BracketInputs : Taken("setBracket", setBracket(store, b))

UpdateMatch ==
    \E id \in StoreMatchIdInputs(store), k \in 1..2 :
        Taken("updateMatch", updateMatch(store, id, Player(k)))

Undo == Taken("undo", undo(store))

Redo == Taken("redo", redo(store))

DistributePools == Taken("distributePools", distributePools(store))

SetAnnotation ==
    \E id \in StoreMatchIdInputs(store), annotation \in AnnotationInputs :
        Taken("setAnnotation", setAnnotation(store, id, annotation))

SetViewMode ==
    \E mode \in ViewModeInputs : Taken("setViewMode", setViewMode(store, mode))

SetStatus ==
    \E status \in StatusInputs : Taken("setStatus", setStatus(store, status))

\* The timer of lines 272-276 fires.
SaveState == \E date \in DateInputs : Taken("saveState", saveState(store, date))

StoreAction ==
    \/ AddPlayer
    \/ RemovePlayer
    \/ ImportPlayers
    \/ DropFile
    \/ FileLoaded
    \/ FileFailed
    \/ ClearPlayers
    \/ SetBracket
    \/ UpdateMatch
    \/ Undo
    \/ Redo
    \/ DistributePools
    \/ SetAnnotation
    \/ SetViewMode
    \/ SetStatus
    \/ SaveState

InitStore ==
    /\ players = <<>>
    /\ bracket = Null
    /\ slots = <<>>
    /\ last = NoCall
    /\ calls = NoCalls
    /\ \/ store = NoStore
       \/ \E earlier \in EarlierSessions :
             store = rehydrated(partialize(earlier), Len(StateOf(earlier).players))

\* Every sequence of at most MaxSteps actions on the initial store.
NextStore == Len(store.trail) < MaxSteps /\ StoreAction

StoreSpec == InitStore /\ [][NextStore]_vars

\* The history is filled by addPlayer calls alone; once it is about full,
\* every sequence of at most MaxFullSteps actions.
FillHistory ==
    /\ store.trail = <<>>
    /\ Len(store.states) <= MAX_HISTORY + 1
    /\ store' = Issued(addPlayer(store, FreshPlayer(store, 0)), 1)
    /\ UNCHANGED <<players, bracket, slots, last, calls>>

NextHistory ==
    \/ FillHistory
    \/ /\ Len(store.states) >= MAX_HISTORY - 1
       /\ Len(store.trail) < MaxFullSteps
       /\ StoreAction

HistorySpec == InitStore /\ [][NextHistory]_vars

-----------------------------------------------------------------------------
(* Vocabulary of the properties *)

\* A bracket is on display (generateBracket has run and was not reset).
Generated == bracket # Null

ByeCount(entries) == Cardinality({j \in 1..Len(entries) : IsBye(entries[j])})

\* p is the smallest power of two that is >= n.
SmallestPowerOfTwoAtLeast(p, n) ==
    /\ p >= n
    /\ \E k \in 0..(n \div 2 + 1) : p = 2^k
    /\ \A k \in 0..(n \div 2 + 1) : 2^k >= n => 2^k >= p

FirstRound == bracket.rounds[1]

OneBye(match) == IsBye(match.player1) # IsBye(match.player2)
NoBye(match) == ~IsBye(match.player1) /\ ~IsBye(match.player2)

-----------------------------------------------------------------------------
(* Seeding and construction (SeedSpec) *)

\* C1: for every competitor count N >= 2, the seeded slot list has length
\* equal to the smallest power of two >= N and holds exactly that power of
\* two minus N bye entries.
C1_SlotCountIsNextPowerOfTwo ==
    (Generated /\ Len(players) >= 2) =>
        /\ SmallestPowerOfTwoAtLeast(Len(slots), Len(players))
        /\ ByeCount(slots) = Len(slots) - Len(players)

C1_Witness ==
    /\ Generated
    /\ Len(players) = 11
    /\ Len(slots) = 16
    /\ ByeCount(slots) = 5

\* C2: for N >= 2 distinct competitors, every competitor occurs exactly once
\* in the slot list, every other entry is a bye flagged isBye = TRUE, and
\* all ids of the list (byes and competitors alike) are pairwise distinct.
C2_SeedKeepsCompetitorsAndDistinctByes ==
    (Generated /\ Len(players) >= 2) =>
        /\ \A i \in 1..Len(players) :
              Cardinality({j \in 1..Len(slots) : slots[j] = players[i]}) = 1
        /\ \A j \in 1..Len(slots) :
              (\A i \in 1..Len(players) : slots[j] # players[i]) =>
                  ("isBye" \in DOMAIN slots[j] /\ slots[j].isBye = TRUE)
        /\ \A j, k \in 1..Len(slots) : j # k => slots[j].id # slots[k].id

C2_Witness ==
    /\ Generated
    /\ Len(players) = 9
    /\ ByeCount(slots) = 7
    /\ \E j, k \in 1..Len(slots) : slots[j].id = "bye-7" /\ slots[k] = players[9]

\* C3: with 2^k slots the bracket has exactly k rounds, round r has
\* 2^(k-r) matches, round 1 has half as many matches as there are slots, and
\* the match at 1-based position m of round r has id "r{r}-m{m}" and round r.
C3_RoundStructure ==
    (Generated /\ Len(players) >= 2) =>
        \E k \in 1..(Len(slots) \div 2) :
            /\ Len(slots) = 2^k
            /\ Len(bracket.rounds) = k
            /\ 2 * Len(bracket.rounds[1]) = Len(slots)
            /\ \A r \in 1..k :
                  /\ Len(bracket.rounds[r]) = 2^(k - r)
                  /\ \A m \in 1..Len(bracket.rounds[r]) :
                        /\ bracket.rounds[r][m].id =
                               "r" \o ToString(r) \o "-m" \o ToString(m)
                        /\ bracket.rounds[r][m].round = r

C3_Witness ==
    /\ Generated
    /\ Len(players) = 13
    /\ Len(bracket.rounds) = 4
    /\ Len(bracket.rounds[2]) = 4
    /\ bracket.rounds[4][1].id = "r4-m1"

\* C4: right after generateBracket, a first-round match with exactly one bye
\* has the non-bye competitor of that match as its winner, and a first-round
\* match without a bye has no winner.
C4_ByeOpponentAdvances ==
    last.op = "generate" =>
        \A m \in 1..Len(FirstRound) :
            LET match == FirstRound[m]
            IN  /\ (IsBye(match.player1) /\ ~IsBye(match.player2)) =>
                       match.winner = match.player2
                /\ (IsBye(match.player2) /\ ~IsBye(match.player1)) =>
                       match.winner = match.player1
                /\ NoBye(match) => match.winner = Undefined

C4_Witness ==
    /\ last.op = "generate"
    /\ \E m \in 1..Len(FirstRound) :
          /\ IsBye(FirstRound[m].player2)
          /\ FirstRound[m].winner = FirstRound[m].player1
          /\ FirstRound[m].winner \in {players[i] : i \in 1..Len(players)}
    /\ \E m \in 1..Len(FirstRound) :
          /\ IsBye(FirstRound[m].player1)
          /\ FirstRound[m].winner = FirstRound[m].player2
          /\ FirstRound[m].winner \in {players[i] : i \in 1..Len(players)}
    /\ \E m \in 1..Len(FirstRound) :
          NoBye(FirstRound[m]) /\ FirstRound[m].winner = Undefined

-----------------------------------------------------------------------------
(* Winner propagation (Spec): each property reads the last call, from        *)
(* last.before (the bracket it was given) to bracket (the bracket returned). *)

Selected == last.op = "select"

\* Where last.matchId sits in the bracket the call was given.
TargetPositions ==
    {pos \in Positions(last.before) :
        last.before.rounds[pos[1]][pos[2]].id = last.matchId}

Before(pos) == last.before.rounds[pos[1]][pos[2]]
After(pos) == bracket.rounds[pos[1]][pos[2]]

InFinalRound(pos) == pos[1] = Len(last.before.rounds)

\* The parent of the match at pos: floor(i/2) of the next round, i 0-based.
ParentOf(pos) == <<pos[1] + 1, ((pos[2] - 1) \div 2) + 1>>

\* The occupants of the match's slots whose id is last.winnerId.
NamedOccupants(match) ==
    {p \in {match.player1, match.player2} : p # Undefined /\ p.id = last.winnerId}

\* C5: a call on a bye-free match that is not in the final round, at 0-based
\* index i, naming one of its occupants: the match's winner is that
\* occupant; match floor(i/2) of the next round holds the occupant in its
\* first slot (i even) or second slot (i odd), keeps its other slot, and has
\* no winner.
C5_WinnerAdvancesToParent ==
    Selected =>
        \A pos \in TargetPositions :
            \A w \in NamedOccupants(Before(pos)) :
                (NoBye(Before(pos)) /\ ~InFinalRound(pos)) =>
                    /\ After(pos).winner = w
                    /\ After(ParentOf(pos)).winner = Undefined
                    /\ IF (pos[2] - 1) % 2 = 0
                       THEN /\ After(ParentOf(pos)).player1 = w
                            /\ After(ParentOf(pos)).player2 = Before(ParentOf(pos)).player2
                       ELSE /\ After(ParentOf(pos)).player2 = w
                            /\ After(ParentOf(pos)).player1 = Before(ParentOf(pos)).player1

\* An odd-indexed child replaced its earlier winner in a parent that was decided.
C5_Witness ==
    /\ Selected
    /\ \E pos \in TargetPositions :
          /\ (pos[2] - 1) % 2 = 1
          /\ ~InFinalRound(pos)
          /\ NoBye(Before(pos))
          /\ NamedOccupants(Before(pos)) # {}
          /\ Before(ParentOf(pos)).winner # Undefined
          /\ Before(ParentOf(pos)).player2 # Undefined
          /\ After(ParentOf(pos)).player2 # Before(ParentOf(pos)).player2
          /\ After(ParentOf(pos)).player1 # Undefined

\* C6: one call changes at most the winner of the target match and, when the
\* target is not in the final round, one slot and the winner of its parent;
\* every other match, the grandparent included, is left as it was.
C6_ShallowInvalidationFrame ==
    Selected =>
        /\ Positions(bracket) = Positions(last.before)
        /\ \A pos \in Positions(last.before) :
              \/ After(pos) = Before(pos)
              \/ /\ pos \in TargetPositions
                 /\ After(pos) = [Before(pos) EXCEPT !.winner = After(pos).winner]
              \/ \E t \in TargetPositions :
                    /\ ~InFinalRound(t)
                    /\ pos = ParentOf(t)
                    /\ \/ /\ (t[2] - 1) % 2 = 0
                          /\ After(pos) = [Before(pos) EXCEPT
                                              !.player1 = After(pos).player1,
                                              !.winner = After(pos).winner]
                       \/ /\ (t[2] - 1) % 2 = 1
                          /\ After(pos) = [Before(pos) EXCEPT
                                              !.player2 = After(pos).player2,
                                              !.winner = After(pos).winner]

\* A first-round result is replaced: the parent loses its winner, while the
\* grandparent keeps the slot and the winner it had from the old result.
C6_Witness ==
    /\ Selected
    /\ Len(bracket.rounds) >= 3
    /\ \E t \in TargetPositions :
          /\ t[1] = 1
          /\ Before(t).winner # Undefined
          /\ After(t).winner # Before(t).winner
          /\ Before(ParentOf(t)).winner = Before(t).winner
          /\ After(ParentOf(t)).winner = Undefined
          /\ After(ParentOf(ParentOf(t))).winner = Before(t).winner

\* C7: a call on a match with a bye in either slot returns a bracket equal to
\* the one it was given, whatever the winner id.
C7_ByeMatchUnchanged ==
    Selected =>
        \A pos \in TargetPositions :
            (IsBye(Before(pos).player1) \/ IsBye(Before(pos).player2)) =>
                bracket = last.before

\* The caller names the bye itself, or a stranger, as the winner of a bye match.
C7_Witness ==
    /\ Selected
    /\ last.winnerId = "bye-1"
    /\ \E pos \in TargetPositions :
          /\ IsBye(Before(pos).player1)
          /\ Before(pos).player1.id = "bye-1"
          /\ After(pos).winner = Before(pos).player2

\* C8: a call with a match id that no match of any round has returns a
\* bracket equal to the one it was given.
C8_UnknownMatchUnchanged ==
    (Selected /\ TargetPositions = {}) => bracket = last.before

C8_Witness ==
    /\ Selected
    /\ TargetPositions = {}
    /\ last.matchId = "r0-m1"
    /\ \E i \in 1..Len(players) : last.winnerId = players[i].id
    /\ \E pos \in Positions(bracket) :
          pos[1] >= 2 /\ After(pos).winner # Undefined

\* C9: applying the same match id and winner id a second time, to the
\* bracket the first call returned, returns that bracket again.
C9_Idempotent ==
    Selected =>
        updateBracketWithWinner(bracket, last.matchId, last.winnerId) = bracket

\* The first call did change the bracket, replacing an earlier winner.
C9_Witness ==
    /\ Selected
    /\ bracket # last.before
    /\ \E pos \in TargetPositions :
          /\ Before(pos).winner # Undefined
          /\ After(pos).winner # Before(pos).winner
          /\ After(pos).winner.id = last.winnerId

\* C10: a call on a bye-free match with a winner id that is the id of
\* neither occupant leaves the match without a winner.
C10_UnknownWinnerCleared ==
    Selected =>
        \A pos \in TargetPositions :
            (NoBye(Before(pos)) /\ NamedOccupants(Before(pos)) = {}) =>
                After(pos).winner = Undefined

-----------------------------------------------------------------------------
(* Seeding and construction, continued (SeedSpec) *)

\* The error outcome the design asks for on an empty competitor list.
InvalidInput == [error |-> "InvalidInput"]

\* C11: generateBracket on an empty competitor list ends in an InvalidInput
\* error; it never returns a bracket value.
C11_EmptyListRejected ==
    (last.op = "generate" /\ Len(players) = 0) =>
        /\ bracket = InvalidInput
        /\ "rounds" \notin DOMAIN bracket

\* Some first-round match pairs two byes.
ByePairs == {m \in 1..Len(FirstRound) :
                IsBye(FirstRound[m].player1) /\ IsBye(FirstRound[m].player2)}

\* C16: for 2..16 competitors no first-round match holds a bye in both slots.
C16_NoByeVersusBye ==
    (Generated /\ Len(players) >= 2 /\ Len(players) <= 16) => ByePairs = {}

\* C17: a first-round match that pairs two byes has no winner after
\* generateBracket.
C17_ByePairHasNoWinner ==
    last.op = "generate" =>
        \A m \in ByePairs : FirstRound[m].winner = Undefined

\* C18: right after generateBracket, the match at 0-based position i of a
\* round r >= 2 holds in its first slot the winner (possibly none) of match
\* 2i of round r-1 and in its second slot that of match 2i+1, and has no
\* winner itself; so every slot of a round >= 3 is empty.
C18_LaterRoundsTakePreviousWinners ==
    last.op = "generate" =>
        \A r \in 2..Len(bracket.rounds) :
            \A m \in 1..Len(bracket.rounds[r]) :
                LET match == bracket.rounds[r][m]
                IN  /\ match.player1 = bracket.rounds[r - 1][2 * m - 1].winner
                    /\ match.player2 = bracket.rounds[r - 1][2 * m].winner
                    /\ match.winner = Undefined
                    /\ r >= 3 => (match.player1 = Undefined /\ match.player2 = Undefined)

\* Eleven competitors: r2-m1 is fed by a bye match and an undecided one,
\* r2-m4 by two bye matches, and the rounds after it are empty.
C18_Witness ==
    /\ last.op = "generate"
    /\ Len(players) = 11
    /\ Len(bracket.rounds) = 4
    /\ bracket.rounds[2][1].player1 = players[1]
    /\ bracket.rounds[2][1].player2 = Undefined
    /\ bracket.rounds[2][4].player1 = FirstRound[7].player1
    /\ bracket.rounds[2][4].player2 = FirstRound[8].player1
    /\ FirstRound[8].player1 \in {players[i] : i \in 1..Len(players)}
    /\ bracket.rounds[3][2].player1 = Undefined

-----------------------------------------------------------------------------
(* The reference placement of the design (section 4.1), written from its    *)
(* five steps and not from the loops of distributeByes.                     *)

RefUpperSize(n) == IF n % 2 = 1 THEN (n + 1) \div 2 ELSE n \div 2

\* Step 3: the byes allotted to the upper half; the lower half has the rest.
RefUpperByes(n, byes) ==
    IF byes % 2 = 0 THEN byes \div 2
    ELSE IF n % 2 = 1 THEN (byes - 1) \div 2 ELSE (byes + 1) \div 2

RefByeIds(from, to) == [j \in 1..(to - from + 1) |-> "bye-" \o ToString(from + j - 1)]

\* Step 4 on one half given as ids, with `allotted` byes numbered from `first`:
\* one bye before the first entry, one before the last, the rest after it.
RefHalf(ids, allotted, first) ==
    LET n == Len(ids)
        atFirst == IF n >= 1 /\ allotted >= 1 THEN 1 ELSE 0
        atLast == IF n >= 2 /\ allotted >= 2 THEN 1 ELSE 0
    IN  RefByeIds(first, first + atFirst - 1)
        \o SubSeq(ids, 1, n - 1)
        \o (IF n >= 2 THEN RefByeIds(first + atFirst, first + atFirst + atLast - 1)
                      ELSE <<>>)
        \o SubSeq(ids, IF n >= 1 THEN n ELSE 1, n)
        \o RefByeIds(first + atFirst + atLast, first + allotted - 1)

RefSlotIds(ids) ==
    LET n == Len(ids)
        byes == (CHOOSE p \in n..(2 * n) : SmallestPowerOfTwoAtLeast(p, n)) - n
        upper == RefUpperByes(n, byes)
    IN  RefHalf(SubSeq(ids, 1, RefUpperSize(n)), upper, 1)
        \o RefHalf(SubSeq(ids, RefUpperSize(n) + 1, n), byes - upper, upper + 1)

IdsOf(entries) == [j \in 1..Len(entries) |-> entries[j].id]

\* C19: for every N >= 2 the seeded slot order is the reference placement:
\* competitors in input order, byes in generation order, per half one bye
\* right before its first and one right before its last competitor while
\* the half's allotment lasts, the rest after its last competitor; five
\* competitors p1..p5 give [bye-1, p1, p2, p3, bye-2, p4, bye-3, p5].
C19_SlotOrderIsReferencePlacement ==
    (Generated /\ Len(players) >= 2) =>
        /\ IdsOf(slots) = RefSlotIds(IdsOf(players))
        /\ IdsOf(players) = <<"p1", "p2", "p3", "p4", "p5">> =>
               IdsOf(slots) = <<"bye-1", "p1", "p2", "p3", "bye-2", "p4", "bye-3", "p5">>

C19_Witness ==
    /\ Generated
    /\ IdsOf(players) = <<"p1", "p2", "p3", "p4", "p5">>
    /\ IdsOf(slots) = <<"bye-1", "p1", "p2", "p3", "bye-2", "p4", "bye-3", "p5">>

\* The slots after the upper half and its trailing byes (after line 67).
LowerSegment(ps, entries) ==
    SubSeq(entries, Len(UpperPart(ps, calculateByes(Len(ps))).result) + 1, Len(entries))

\* C20 as stated: for some competitor count in 2..32 the lower-half segment
\* holds more byes than the bye split allots to the lower half (read in any
\* state where the seeder has run).
C20_LowerHalfOverAllotted ==
    Generated =>
        \E n \in 2..32 :
            ByeCount(LowerSegment(PlayerList(n, 0), playersWithByesOf(PlayerList(n, 0))))
                > lowerByes(n, calculateByes(n))

\* C20, amended: for every competitor count the lower-half segment holds
\* exactly the byes the split allots to the lower half, never more (the
\* lower loop starts with byeIndex = upperByes, so the total bye count
\* bounds it at the lower allotment).
C20_LowerHalfGetsItsAllotment ==
    (Generated /\ Len(players) >= 2) =>
        ByeCount(LowerSegment(players, slots))
            = lowerByes(Len(players), Len(slots) - Len(players))

\* An odd count with an odd number of byes: the lower half is allotted more
\* byes than the upper half and holds exactly those.
C20_Witness ==
    /\ Generated
    /\ Len(players) = 21
    /\ Len(slots) - Len(players) = 11
    /\ ByeCount(LowerSegment(players, slots)) = 6
    /\ ByeCount(slots) - ByeCount(LowerSegment(players, slots)) = 5

-----------------------------------------------------------------------------
(* Winner propagation, continued (Spec) *)

\* C13: after any sequence of calls the bracket has the rounds, the matches
\* per round, the match ids and round numbers, and the first-round slots it
\* had right after generateBracket.
C13_StructureNeverChanges ==
    Generated =>
        LET built == generateBracket(players).rounds
        IN  /\ Len(bracket.rounds) = Len(built)
            /\ \A r \in 1..Len(built) :
                  /\ Len(bracket.rounds[r]) = Len(built[r])
                  /\ \A m \in 1..Len(built[r]) :
                        /\ bracket.rounds[r][m].id = built[r][m].id
                        /\ bracket.rounds[r][m].round = built[r][m].round
            /\ \A m \in 1..Len(built[1]) :
                  /\ FirstRound[m].player1 = built[1][m].player1
                  /\ FirstRound[m].player2 = built[1][m].player2

\* A three-round bracket played through to a champion, with a first-round
\* result entered after that.
C13_Witness ==
    /\ Selected
    /\ Len(bracket.rounds) = 3
    /\ bracket.rounds[3][1].winner # Undefined
    /\ \E t \in TargetPositions : t[1] = 1 /\ After(t).winner # Before(t).winner
    /\ bracket # generateBracket(players)

\* C14: in every reachable bracket a match that has a winner has it in its
\* own first or second slot.
C14_WinnerIsAnOccupant ==
    Generated =>
        \A pos \in Positions(bracket) :
            After(pos).winner # Undefined =>
                After(pos).winner \in {After(pos).player1, After(pos).player2}

\* A decided parent had the slot of its winner overwritten by a new result
\* of the child, and lost its winner with it.
C14_Witness ==
    /\ Selected
    /\ \E t \in TargetPositions :
          /\ ~InFinalRound(t)
          /\ Before(ParentOf(t)).winner # Undefined
          /\ Before(ParentOf(t)).winner = Before(t).winner
          /\ After(t).winner # Before(t).winner
          /\ After(t).winner # Undefined
          /\ After(ParentOf(t)).winner = Undefined

-----------------------------------------------------------------------------
(* A competitor played to the final (PathSpec): after generateBracket the    *)
(* caller declares one competitor the winner of each match on its path,     *)
(* round by round.                                                          *)

\* The 1-based slot of competitor c of the input list.
SlotOf(c) == CHOOSE j \in 1..Len(slots) : slots[j] = players[c]

\* The 1-based position, in round r, of the match on competitor c's path.
PathMatch(c, r) == (((SlotOf(c) - 1) \div 2) \div Pow2(r - 1)) + 1

\* The round (1-based) of the match the last call named, 0 before any call.
LastRound ==
    IF last.op = "select" THEN findRoundIndex(bracket.rounds, last.matchId) + 1 ELSE 0

\* handleWinnerSelect on the next match of one competitor's path.
SelectOnPath ==
    /\ bracket # Null
    /\ LastRound < Len(bracket.rounds)
    /\ \E c \in 1..Len(players) :
          /\ last.op = "select" => last.winnerId = players[c].id
          /\ LET id == bracket.rounds[LastRound + 1][PathMatch(c, LastRound + 1)].id
             IN  /\ bracket' = updateBracketWithWinner(bracket, id, players[c].id)
                 /\ last' = [op |-> "select", before |-> bracket,
                             matchId |-> id, winnerId |-> players[c].id]
    /\ UNCHANGED <<players, slots, calls, store>>

InitPath == InitWith(2, MaxN, FALSE)

NextPath ==
    \/ HandleGenerateBracket
    \/ SelectOnPath

PathSpec == InitPath /\ [][NextPath]_vars

\* The competitor has been declared the winner of every match of its path.
PathPlayed == last.op = "select" /\ LastRound = Len(bracket.rounds)

FinalMatch == bracket.rounds[Len(bracket.rounds)][1]

\* C15: for 2..16 competitors and any competitor c, once c has been declared
\* the winner of each match on its path to the final, the final's winner is c.
C15_EveryCompetitorCanWin ==
    (PathPlayed /\ Len(players) <= 16) => HasId(FinalMatch.winner, last.winnerId)

-----------------------------------------------------------------------------
(* Purity (Spec) *)

\* The bracket the last call was given, as its holders read it after the call.
InputNow == inputAfterCall(last.before, last.matchId, last.winnerId)

\* C12: the bracket given to a call reads the same after the call as before
\* it, for every holder of it; the update shows only in the bracket returned.
C12_InputBracketUntouched ==
    Selected =>
        /\ InputNow = last.before
        /\ resultOfCall(last.before, last.matchId, last.winnerId) = bracket

\* A call that changed a match and its parent in the bracket it returned.
C12_Witness ==
    /\ Selected
    /\ InputNow = last.before
    /\ \E t \in TargetPositions :
          /\ ~InFinalRound(t)
          /\ After(t).winner # Before(t).winner
          /\ After(ParentOf(t)) # Before(ParentOf(t))

-----------------------------------------------------------------------------
(* Byes and empty slots beyond the first round *)

\* C22: for every N in 2..16, no competitor slot of any match in round 2 or
\* later holds a bye (byes occur only in first-round slots).
C22_NoByeBeyondFirstRound ==
    (Generated /\ Len(players) >= 2 /\ Len(players) <= 16) =>
        \A r \in 2..Len(bracket.rounds) :
            \A m \in 1..Len(bracket.rounds[r]) : NoBye(bracket.rounds[r][m])

\* C23: in every bracket reachable from generateBracket (N >= 2) by calls of
\* updateBracketWithWinner, a match that has a declared winner has both of
\* its competitor slots occupied.
C23_WinnerNeedsBothSlots ==
    Generated =>
        \A pos \in Positions(bracket) :
            LET match == bracket.rounds[pos[1]][pos[2]]
            IN  match.winner # Undefined =>
                    match.player1 # Undefined /\ match.player2 # Undefined

-----------------------------------------------------------------------------
(* The two halves of the slot list *)

FirstHalfOfSlots == SubSeq(slots, 1, Len(slots) \div 2)
SecondHalfOfSlots == SubSeq(slots, Len(slots) \div 2 + 1, Len(slots))

CompetitorsIn(entries) == {entries[j] : j \in {k \in 1..Len(entries) : ~IsBye(entries[k])}}

\* C24: for every N in 2..16 the first half of the slot list holds exactly
\* the upper-half competitors (the first ceil((N+1)/2) when N is odd, the
\* first N/2 when N is even) and the upper half's byes, the second half
\* exactly the lower-half competitors and byes, so a competitor of the upper
\* half and one of the lower half share a match only in the final round.
C24_HalvesStaySeparate ==
    (Generated /\ Len(players) >= 2 /\ Len(players) <= 16) =>
        LET n == Len(players)
            up == RefUpperSize(n)
            upperByeCount == RefUpperByes(n, Len(slots) - n)
        IN  /\ CompetitorsIn(FirstHalfOfSlots) = {players[i] : i \in 1..up}
            /\ CompetitorsIn(SecondHalfOfSlots) = {players[i] : i \in (up + 1)..n}
            /\ ByeCount(FirstHalfOfSlots) = upperByeCount
            /\ ByeCount(SecondHalfOfSlots) = Len(slots) - n - upperByeCount
            /\ \A c \in 1..up, d \in (up + 1)..n :
                  \A r \in 1..(Len(bracket.rounds) - 1) :
                      PathMatch(c, r) # PathMatch(d, r)

C24_Witness ==
    /\ Generated
    /\ Len(players) = 11
    /\ players[6] \in CompetitorsIn(FirstHalfOfSlots)
    /\ players[7] \in CompetitorsIn(SecondHalfOfSlots)
    /\ ByeCount(FirstHalfOfSlots) = 2
    /\ PathMatch(6, 4) = PathMatch(7, 4)

-----------------------------------------------------------------------------
(* Calls on two matches of one round *)

\* The matches of the call's round other than the one it named.
OtherMatchesOfRound(pos) ==
    {other \in Positions(last.before) : other[1] = pos[1] /\ other # pos}

\* C25: for every reachable bracket b, two different matches m1, m2 of one
\* round (siblings included) and any winner ids w1, w2, applying (m1, w1)
\* then (m2, w2) gives the same bracket, by value, as applying (m2, w2) then
\* (m1, w1).  The last call is (m1, w1) on b = last.before.
C25_SameRoundCallsCommute ==
    Selected =>
        \A pos \in TargetPositions :
            \A other \in OtherMatchesOfRound(pos), w2 \in WinnerIdInputs :
                updateBracketWithWinner(bracket, Before(other).id, w2)
                    = updateBracketWithWinner(
                          updateBracketWithWinner(last.before, Before(other).id, w2),
                          last.matchId, last.winnerId)

\* A call on a bye-free first-round match whose sibling is decided, so that
\* the parent holds both winners.
C25_Witness ==
    /\ Selected
    /\ \E pos \in TargetPositions :
          /\ pos[1] = 1
          /\ NoBye(Before(pos))
          /\ After(pos).winner # Undefined
          /\ \E other \in OtherMatchesOfRound(pos) :
                /\ ParentOf(other) = ParentOf(pos)
                /\ NoBye(Before(other))
                /\ Before(other).winner # Undefined
          /\ After(ParentOf(pos)).player1 # Undefined
          /\ After(ParentOf(pos)).player2 # Undefined

-----------------------------------------------------------------------------
(* Two runs on one snapshot (ConcurrentSpec) *)

FirstCommitted == calls.committed[1]
SecondCommitted == calls.committed[2]

\* The match with the given id in a bracket that holds it.
MatchWithId(b, id) ==
    LET pos == CHOOSE q \in Positions(b) : b.rounds[q[1]][q[2]].id = id
    IN  b.rounds[pos[1]][pos[2]]

HoldsByeFree(b, id) ==
    /\ \E q \in Positions(b) : b.rounds[q[1]][q[2]].id = id
    /\ NoBye(MatchWithId(b, id))

\* Both runs were applied, they read the same bracket and named different
\* bye-free matches of it.
TwoRunsOnOneSnapshot ==
    /\ Len(calls.committed) = 2
    /\ FirstCommitted.snapshot = SecondCommitted.snapshot
    /\ FirstCommitted.matchId # SecondCommitted.matchId
    /\ HoldsByeFree(FirstCommitted.snapshot, FirstCommitted.matchId)
    /\ HoldsByeFree(FirstCommitted.snapshot, SecondCommitted.matchId)

\* The winner the first applied run declared for its match.
FirstDeclared ==
    MatchWithId(updateBracketWithWinner(FirstCommitted.snapshot,
                                        FirstCommitted.matchId,
                                        FirstCommitted.winnerId),
                FirstCommitted.matchId).winner

\* C21: two runs read the same bracket, name different bye-free matches and
\* are applied one after the other: the bracket held afterwards is the
\* second run's result alone, so a winner the first run declared and the
\* snapshot did not already show is not in it (a lost update; the witness
\* is the reachable state the claim speaks of).
C21_FirstUpdateIsLost ==
    TwoRunsOnOneSnapshot =>
        /\ bracket = updateBracketWithWinner(SecondCommitted.snapshot,
                                             SecondCommitted.matchId,
                                             SecondCommitted.winnerId)
        /\ (/\ FirstDeclared # Undefined
            /\ MatchWithId(FirstCommitted.snapshot, FirstCommitted.matchId).winner
                   # FirstDeclared)
               => MatchWithId(bracket, FirstCommitted.matchId).winner # FirstDeclared

C21_Witness ==
    /\ TwoRunsOnOneSnapshot
    /\ calls.inflight = <<>>
    /\ FirstDeclared # Undefined
    /\ HasId(FirstDeclared, FirstCommitted.winnerId)
    /\ MatchWithId(bracket, FirstCommitted.matchId).winner = Undefined
    /\ MatchWithId(bracket, SecondCommitted.matchId).winner # Undefined

-----------------------------------------------------------------------------
(* The store's history (StoreSpec, HistorySpec) *)

LastTaken == store.trail[Len(store.trail)]

Took(op) == store.trail # <<>> /\ LastTaken.op = op

\* The last action replaced the store's state object.
Replaced == store.current # LastTaken.current

\* The bracket of the state object at ref, read by value through the arrays.
BracketRead(ref, arrays) ==
    LET b == store.states[ref].bracket
    IN  IF b = Null THEN Null
        ELSE [b EXCEPT !.rounds = arrays[b.rounds]]

\* The state object the newest history entry of the store's state refers to.
NewestSnapshot ==
    StateOf(store).history[Len(StateOf(store).history)].state

\* C26: after updateMatch(matchId, winner) the bracket held in the history
\* entry it recorded still reads as it did before the update, the winner of
\* that match included: the write is not visible through the snapshot.
C26_SnapshotIsIndependent ==
    (Took("updateMatch") /\ Replaced) =>
        BracketRead(NewestSnapshot, store.arrays)
            = BracketRead(NewestSnapshot, LastTaken.arrays)

\* C27: after any sequence of store actions the history has at most
\* MAX_HISTORY = 50 entries and historyIndex is at most 49.
C27_HistoryIsBounded ==
    /\ MAX_HISTORY = 50
    /\ Len(StateOf(store).history) <= 50
    /\ StateOf(store).historyIndex <= 49

\* addPlayer on a full history: the oldest entry is dropped.
C27_Witness ==
    /\ Took("addPlayer")
    /\ Len(store.states[LastTaken.current].history) = 50
    /\ store.states[LastTaken.current].historyIndex = 49
    /\ Len(StateOf(store).history) = 50
    /\ StateOf(store).historyIndex = 49
    /\ StateOf(store).history[1] = store.states[LastTaken.current].history[2]
    /\ StateOf(store).history[50].state = LastTaken.current

RecordingActions == {"addPlayer", "removePlayer", "importPlayers", "updateMatch"}

\* The last action was preceded by history-recording actions only, k >= 1 of them.
AfterRecordingActions ==
    /\ Len(store.trail) >= 2
    /\ \A i \in 1..(Len(store.trail) - 1) : store.trail[i].op \in RecordingActions

\* The most recent action before the last one.
MostRecent == store.trail[Len(store.trail) - 1]

\* C28: after k >= 1 history-recording actions from the initial state, one
\* undo restores the players list and the bracket to exactly what they were
\* immediately before the most recent of those actions.
C28_UndoRestoresPreviousState ==
    (AfterRecordingActions /\ Took("undo")) =>
        /\ StateOf(store).players = store.states[MostRecent.current].players
        /\ BracketRead(store.current, store.arrays)
               = BracketRead(MostRecent.current, MostRecent.arrays)

\* C29: in a state reached by history-recording actions where undo changes
\* the state, undo followed by redo gives back the players list, the bracket
\* and the historyIndex the store had before the undo.
C29_RedoReversesUndo ==
    (AfterRecordingActions /\ Took("undo") /\ Replaced) =>
        LET redone == redo(store)
            bracketRedone == redone.states[redone.current].bracket
        IN  /\ StateOf(redone).players = store.states[LastTaken.current].players
            /\ StateOf(redone).historyIndex
                   = store.states[LastTaken.current].historyIndex
            /\ (IF bracketRedone = Null THEN Null
                ELSE [bracketRedone EXCEPT !.rounds = redone.arrays[@]])
                   = BracketRead(LastTaken.current, LastTaken.arrays)

=============================================================================
